---- MODULE Spec2Model ----
(***************************************************************************)
(* Model of backend/src/apiserver/server/run_server.go: the RunServer      *)
(* request handlers of the pipelines API server.                            *)
(*                                                                          *)
(* A handler is an operator from its request and from the answers of its   *)
(* collaborators (the resource manager, the authorizer, the validators) to *)
(* its returned error, its response and the collaborator calls it made, in *)
(* order.  The collaborators live outside run_server.go; their answers are *)
(* drawn from the record env, one field per collaborator.                  *)
(***************************************************************************)
EXTENDS Naturals, Sequences, FiniteSets

\* Longest metric list of a ReportRunMetrics request.
MaxMetrics == 3

RunIds == {"r1", "r2"}
Namespaces == {"ns1", "ns2"}
ExperimentIds == {"e1", "e2"}

VARIABLES
    multiUser,  \* common.IsMultiUserMode(), fixed for the process
    runs,       \* the run ids the resource manager stores
    op,         \* the handler of the current (or last served) request
    req,        \* its request
    env,        \* the collaborators' answers during that request
    pc,         \* "idle": no request; "loop": inside ReportRunMetrics' for
                \* loop; "done": the handler has returned
    calls,      \* the collaborator calls made for that request, in order
    err,        \* the error returned (Nil = nil)
    idx,        \* metrics the for loop has processed
    resp,       \* the kind of response returned ("nil" with an error)
    results     \* response.Results of ReportRunMetrics

vars == <<multiUser, runs, op, req, env, pc, idx, calls, err, resp, results>>

----------------------------------------------------------------------------
\* Errors: a class (the UserError's status) and its message, outermost part
\* first.

Nil == [code |-> "OK", msgs |-> <<>>]

NewInvalidInputError(msg) == [code |-> "InvalidInput", msgs |-> <<msg>>]

NewInternalServerError(cause, msg) == [code |-> "Internal", msgs |-> <<msg, cause>>]

\* util.Wrap keeps the error's class and puts the message in front.
Wrap(e, msg) == [code |-> e.code, msgs |-> <<msg>> \o e.msgs]

\* err.Error(): the message text, as its parts.
ErrorText(e) == e.msgs

NotFoundError == [code |-> "NotFound", msgs |-> <<"Run not found.">>]
EngineFailure == [code |-> "Internal", msgs |-> <<"Resource manager failure.">>]
PermissionDenied == [code |-> "PermissionDenied", msgs |-> <<"Unauthorized access.">>]
InvalidOptions == NewInvalidInputError("Invalid sort or filter field.")
InvalidFilter == NewInvalidInputError("Unrecognized resource reference type.")
InvalidSpec == NewInvalidInputError("Please specify a pipeline by providing a pipeline ID or workflow manifest.")
InvalidVersion == NewInvalidInputError("Get pipelineVersionId failed.")
InvalidMetric == NewInvalidInputError("Invalid metric.")

\* One collaborator call: the callee, its key argument, the loop index of
\* the metric it was made for (0 outside the loop), and whether it returned
\* without error.
Call(fn, arg, i, e) == [fn |-> fn, arg |-> arg, i |-> i, ok |-> (e = Nil)]

----------------------------------------------------------------------------
\* The collaborators' answers.

\* Outcomes of resourceManager.GetNamespaceFromRunID.
Lookups ==
    {[err |-> NotFoundError, ns |-> ""], [err |-> Nil, ns |-> ""]}
        \cup {[err |-> Nil, ns |-> n] : n \in Namespaces}

DefaultEnv ==
    [lookup     |-> [err |-> Nil, ns |-> "ns1"],
     allowed    |-> {},     \* namespaces the authorizer allows the caller
     expAllowed |-> {},     \* experiments the caller can access
     fault      |-> FALSE,  \* the resource manager's operation fails
     optsOk     |-> TRUE,   \* sort/filter/page parameters are valid
     filterOk   |-> TRUE,   \* the resource reference key is recognized
     specOk     |-> TRUE,   \* the pipeline spec is valid
     versionOk  |-> TRUE]   \* the references name a usable pipeline version

isAuthorized(namespace, e) ==
    IF namespace \in e.allowed THEN Nil ELSE PermissionDenied

CanAccessExperiment(experimentID, e) ==
    IF experimentID \in e.expAllowed THEN Nil ELSE PermissionDenied

\* A resource manager operation on one stored run.
rmRunOp(runId, e) ==
    IF e.fault THEN EngineFailure
    ELSE IF runId \notin runs THEN NotFoundError
    ELSE Nil

----------------------------------------------------------------------------
\* What a handler returns, with the calls it made and the stored runs after.
Return(e, r, cs, rs) == [err |-> e, resp |-> r, calls |-> cs, runs |-> rs]

\* As canAccessRun, taking an authorizer's denial for an allowance.
canAccessRunIgnoringDenial(runId, e) ==
    IF multiUser = FALSE
    THEN [err |-> Nil, calls |-> <<>>]
    ELSE
    LET lk == e.lookup
        c1 == <<Call("GetNamespaceFromRunID", runId, 0, lk.err)>>
    IN  IF lk.err # Nil
        THEN [err |-> Wrap(lk.err, "Failed to authorize with the run Id."), calls |-> c1]
        ELSE IF Len(lk.ns) = 0
        THEN [err |-> NewInternalServerError("There is no namespace found",
                                              "There is no namespace found"),
              calls |-> c1]
        ELSE [err |-> Nil,
              calls |-> c1 \o <<Call("isAuthorized", lk.ns, 0, isAuthorized(lk.ns, e))>>]

\* As canAccessRun, authorizing in single-user mode too.
canAccessRunInEveryMode(runId, e) ==
    LET lk == e.lookup
        c1 == <<Call("GetNamespaceFromRunID", runId, 0, lk.err)>>
    IN  IF lk.err # Nil
        THEN [err |-> Wrap(lk.err, "Failed to authorize with the run Id."), calls |-> c1]
        ELSE IF Len(lk.ns) = 0
        THEN [err |-> NewInternalServerError("There is no namespace found",
                                              "There is no namespace found"),
              calls |-> c1]
        ELSE
        LET az == isAuthorized(lk.ns, e)
            c2 == c1 \o <<Call("isAuthorized", lk.ns, 0, az)>>
        IN  IF az # Nil
            THEN [err |-> Wrap(az, "Failed to authorize with API resource references"),
                  calls |-> c2]
            ELSE [err |-> Nil, calls |-> c2]

\* As canAccessRun, without the check for an empty namespace.
canAccessRunEmptyNamespace(runId, e) ==
    IF multiUser = FALSE
    THEN [err |-> Nil, calls |-> <<>>]
    ELSE
    LET lk == e.lookup
        c1 == <<Call("GetNamespaceFromRunID", runId, 0, lk.err)>>
    IN  IF lk.err # Nil
        THEN [err |-> Wrap(lk.err, "Failed to authorize with the run Id."), calls |-> c1]
        ELSE
        LET az == isAuthorized(lk.ns, e)
            c2 == c1 \o <<Call("isAuthorized", lk.ns, 0, az)>>
        IN  IF az # Nil
            THEN [err |-> Wrap(az, "Failed to authorize with API resource references"),
                  calls |-> c2]
            ELSE [err |-> Nil, calls |-> c2]

canAccessRun(runId, e) ==
    IF multiUser = FALSE
    THEN [err |-> Nil, calls |-> <<>>]
    ELSE
    LET lk == e.lookup
        c1 == <<Call("GetNamespaceFromRunID", runId, 0, lk.err)>>
    IN  IF lk.err # Nil
        THEN [err |-> Wrap(lk.err, "Failed to authorize with the run Id."), calls |-> c1]
        ELSE IF Len(lk.ns) = 0
        THEN [err |-> NewInternalServerError("There is no namespace found",
                                              "There is no namespace found"),
              calls |-> c1]
        ELSE
        LET az == isAuthorized(lk.ns, e)
            c2 == c1 \o <<Call("isAuthorized", lk.ns, 0, az)>>
        IN  IF az # Nil
            THEN [err |-> Wrap(az, "Failed to authorize with API resource references"),
                  calls |-> c2]
            ELSE [err |-> Nil, calls |-> c2]

\* As GetRun, wrapping the resource manager's error.
GetRunWrappingEngineError(request, e) ==
    LET a == canAccessRun(request.runId, e)
    IN  IF a.err # Nil
        THEN Return(Wrap(a.err, "Failed to authorize the request."), "nil", a.calls, runs)
        ELSE
        LET r == rmRunOp(request.runId, e)
            cs == a.calls \o <<Call("rm.GetRun", request.runId, 0, r)>>
        IN  IF r # Nil
            THEN Return(Wrap(r, "Failed to get the run."), "nil", cs, runs)
            ELSE Return(Nil, "RunDetail", cs, runs)

GetRun(request, e) ==
    LET a == canAccessRun(request.runId, e)
    IN  IF a.err # Nil
        THEN Return(Wrap(a.err, "Failed to authorize the request."), "nil", a.calls, runs)
        ELSE
        LET r == rmRunOp(request.runId, e)
            cs == a.calls \o <<Call("rm.GetRun", request.runId, 0, r)>>
        IN  IF r # Nil
            THEN Return(r, "nil", cs, runs)
            ELSE Return(Nil, "RunDetail", cs, runs)

----------------------------------------------------------------------------
\* ListRuns.  request.key is request.ResourceReferenceKey, NoKey when nil.

NoKey == [type |-> "nil", id |-> ""]
KeyTypes == {"Namespace", "Experiment", "ExperimentUUID", "Job", "Unknown"}
KeyIds == {""} \cup Namespaces \cup ExperimentIds
Keys == {NoKey} \cup {[type |-> t, id |-> i] : t \in KeyTypes, i \in KeyIds}

validatedListOptions(e) == IF e.optsOk THEN Nil ELSE InvalidOptions

\* The filter context's ReferenceKey is the request's key (nil stays nil).
ValidateFilter(key, e) ==
    IF e.filterOk
    THEN [err |-> Nil, ReferenceKey |-> key]
    ELSE [err |-> InvalidFilter, ReferenceKey |-> NoKey]

rmListRuns(e) == IF e.fault THEN EngineFailure ELSE Nil

\* As ListRunsAuthorize, letting a missing or unknown reference through.
ListRunsAuthorizePassingUnknown(request, refKey, e) ==
    IF refKey = NoKey
    THEN [err |-> Nil, calls |-> <<>>]
    ELSE IF refKey.type = "Namespace"
    THEN
        IF Len(refKey.id) = 0
        THEN [err |-> NewInvalidInputError("Invalid resource references for ListRuns. Namespace is empty."),
              calls |-> <<>>]
        ELSE
        LET az == isAuthorized(refKey.id, e)
            cs == <<Call("isAuthorized", refKey.id, 0, az)>>
        IN  IF az # Nil
            THEN [err |-> Wrap(az, "Failed to authorize with namespace resource reference."),
                  calls |-> cs]
            ELSE [err |-> Nil, calls |-> cs]
    ELSE IF refKey.type = "Experiment" \/ refKey.type = "ExperimentUUID"
    THEN
        IF Len(refKey.id) = 0
        THEN [err |-> NewInvalidInputError("Invalid resource references for run. Experiment ID is empty."),
              calls |-> <<>>]
        ELSE
        LET az == CanAccessExperiment(refKey.id, e)
            cs == <<Call("CanAccessExperiment", refKey.id, 0, az)>>
        IN  IF az # Nil
            THEN [err |-> Wrap(az, "Failed to authorize with experiment resource reference."),
                  calls |-> cs]
            ELSE [err |-> Nil, calls |-> cs]
    ELSE [err |-> Nil, calls |-> <<>>]

\* As ListRunsAuthorize, without the checks for an empty id.
ListRunsAuthorizeEmptyIds(request, refKey, e) ==
    IF refKey = NoKey
    THEN [err |-> NewInvalidInputError("ListRuns must filter by resource reference in multi-user mode."),
          calls |-> <<>>]
    ELSE IF refKey.type = "Namespace"
    THEN
        IF FALSE
        THEN [err |-> NewInvalidInputError("Invalid resource references for ListRuns. Namespace is empty."),
              calls |-> <<>>]
        ELSE
        LET az == isAuthorized(refKey.id, e)
            cs == <<Call("isAuthorized", refKey.id, 0, az)>>
        IN  IF az # Nil
            THEN [err |-> Wrap(az, "Failed to authorize with namespace resource reference."),
                  calls |-> cs]
            ELSE [err |-> Nil, calls |-> cs]
    ELSE IF refKey.type = "Experiment" \/ refKey.type = "ExperimentUUID"
    THEN
        IF FALSE
        THEN [err |-> NewInvalidInputError("Invalid resource references for run. Experiment ID is empty."),
              calls |-> <<>>]
        ELSE
        LET az == CanAccessExperiment(refKey.id, e)
            cs == <<Call("CanAccessExperiment", refKey.id, 0, az)>>
        IN  IF az # Nil
            THEN [err |-> Wrap(az, "Failed to authorize with experiment resource reference."),
                  calls |-> cs]
            ELSE [err |-> Nil, calls |-> cs]
    ELSE [err |-> [code |-> "InvalidInput",
                   msgs |-> <<"Invalid resource references for ListRuns. Got",
                              request.key.type, request.key.id>>],
          calls |-> <<>>]

\* As ListRunsAuthorize, without the ExperimentUUID alias.
ListRunsAuthorizeNoAlias(request, refKey, e) ==
    IF refKey = NoKey
    THEN [err |-> NewInvalidInputError("ListRuns must filter by resource reference in multi-user mode."),
          calls |-> <<>>]
    ELSE IF refKey.type = "Namespace"
    THEN
        IF Len(refKey.id) = 0
        THEN [err |-> NewInvalidInputError("Invalid resource references for ListRuns. Namespace is empty."),
              calls |-> <<>>]
        ELSE
        LET az == isAuthorized(refKey.id, e)
            cs == <<Call("isAuthorized", refKey.id, 0, az)>>
        IN  IF az # Nil
            THEN [err |-> Wrap(az, "Failed to authorize with namespace resource reference."),
                  calls |-> cs]
            ELSE [err |-> Nil, calls |-> cs]
    ELSE IF refKey.type = "Experiment"
    THEN
        IF Len(refKey.id) = 0
        THEN [err |-> NewInvalidInputError("Invalid resource references for run. Experiment ID is empty."),
              calls |-> <<>>]
        ELSE
        LET az == CanAccessExperiment(refKey.id, e)
            cs == <<Call("CanAccessExperiment", refKey.id, 0, az)>>
        IN  IF az # Nil
            THEN [err |-> Wrap(az, "Failed to authorize with experiment resource reference."),
                  calls |-> cs]
            ELSE [err |-> Nil, calls |-> cs]
    ELSE [err |-> [code |-> "InvalidInput",
                   msgs |-> <<"Invalid resource references for ListRuns. Got",
                              request.key.type, request.key.id>>],
          calls |-> <<>>]

\* Lines 73-100: the multi-user branch, after both validations passed.
ListRunsAuthorize(request, refKey, e) ==
    IF refKey = NoKey
    THEN [err |-> NewInvalidInputError("ListRuns must filter by resource reference in multi-user mode."),
          calls |-> <<>>]
    ELSE IF refKey.type = "Namespace"
    THEN
        IF Len(refKey.id) = 0
        THEN [err |-> NewInvalidInputError("Invalid resource references for ListRuns. Namespace is empty."),
              calls |-> <<>>]
        ELSE
        LET az == isAuthorized(refKey.id, e)
            cs == <<Call("isAuthorized", refKey.id, 0, az)>>
        IN  IF az # Nil
            THEN [err |-> Wrap(az, "Failed to authorize with namespace resource reference."),
                  calls |-> cs]
            ELSE [err |-> Nil, calls |-> cs]
    ELSE IF refKey.type = "Experiment" \/ refKey.type = "ExperimentUUID"
    THEN
        IF Len(refKey.id) = 0
        THEN [err |-> NewInvalidInputError("Invalid resource references for run. Experiment ID is empty."),
              calls |-> <<>>]
        ELSE
        LET az == CanAccessExperiment(refKey.id, e)
            cs == <<Call("CanAccessExperiment", refKey.id, 0, az)>>
        IN  IF az # Nil
            THEN [err |-> Wrap(az, "Failed to authorize with experiment resource reference."),
                  calls |-> cs]
            ELSE [err |-> Nil, calls |-> cs]
    ELSE [err |-> [code |-> "InvalidInput",
                   msgs |-> <<"Invalid resource references for ListRuns. Got",
                              request.key.type, request.key.id>>],
          calls |-> <<>>]

\* As ListRuns, validating the filter before the list options.
ListRunsFilterFirst(request, e) ==
    LET f == ValidateFilter(request.key, e)
        c1 == <<Call("ValidateFilter", request.key.id, 0, f.err)>>
    IN  IF f.err # Nil
        THEN Return(Wrap(f.err, "Validating filter failed."), "nil", c1, runs)
        ELSE
        LET o == validatedListOptions(e)
            c2 == c1 \o <<Call("validatedListOptions", "", 0, o)>>
        IN  IF o # Nil
            THEN Return(Wrap(o, "Failed to create list options"), "nil", c2, runs)
            ELSE
            LET a == IF multiUser
                     THEN ListRunsAuthorize(request, f.ReferenceKey, e)
                     ELSE [err |-> Nil, calls |-> <<>>]
                c3 == c2 \o a.calls
            IN  IF a.err # Nil
                THEN Return(a.err, "nil", c3, runs)
                ELSE
                LET r == rmListRuns(e)
                    c4 == c3 \o <<Call("rm.ListRuns", request.key.id, 0, r)>>
                IN  IF r # Nil
                    THEN Return(Wrap(r, "Failed to list runs."), "nil", c4, runs)
                    ELSE Return(Nil, "ListRunsResponse", c4, runs)

ListRuns(request, e) ==
    LET o == validatedListOptions(e)
        c1 == <<Call("validatedListOptions", "", 0, o)>>
    IN  IF o # Nil
        THEN Return(Wrap(o, "Failed to create list options"), "nil", c1, runs)
        ELSE
        LET f == ValidateFilter(request.key, e)
            c2 == c1 \o <<Call("ValidateFilter", request.key.id, 0, f.err)>>
        IN  IF f.err # Nil
            THEN Return(Wrap(f.err, "Validating filter failed."), "nil", c2, runs)
            ELSE
            LET a == IF multiUser
                     THEN ListRunsAuthorize(request, f.ReferenceKey, e)
                     ELSE [err |-> Nil, calls |-> <<>>]
                c3 == c2 \o a.calls
            IN  IF a.err # Nil
                THEN Return(a.err, "nil", c3, runs)
                ELSE
                LET r == rmListRuns(e)
                    c4 == c3 \o <<Call("rm.ListRuns", request.key.id, 0, r)>>
                IN  IF r # Nil
                    THEN Return(Wrap(r, "Failed to list runs."), "nil", c4, runs)
                    ELSE Return(Nil, "ListRunsResponse", c4, runs)

----------------------------------------------------------------------------
\* ArchiveRun, UnarchiveRun, DeleteRun, TerminateRun, RetryRun.

\* As ArchiveRun, wrapping the resource manager's error.
ArchiveRunWrappingEngineError(request, e) ==
    LET a == canAccessRun(request.runId, e)
    IN  IF a.err # Nil
        THEN Return(Wrap(a.err, "Failed to authorize the request."), "nil", a.calls, runs)
        ELSE
        LET r == rmRunOp(request.runId, e)
            cs == a.calls \o <<Call("rm.ArchiveRun", request.runId, 0, r)>>
        IN  IF r # Nil
            THEN Return(Wrap(r, "Failed to archive the run."), "nil", cs, runs)
            ELSE Return(Nil, "Empty", cs, runs)

ArchiveRun(request, e) ==
    LET a == canAccessRun(request.runId, e)
    IN  IF a.err # Nil
        THEN Return(Wrap(a.err, "Failed to authorize the request."), "nil", a.calls, runs)
        ELSE
        LET r == rmRunOp(request.runId, e)
            cs == a.calls \o <<Call("rm.ArchiveRun", request.runId, 0, r)>>
        IN  IF r # Nil
            THEN Return(r, "nil", cs, runs)
            ELSE Return(Nil, "Empty", cs, runs)

UnarchiveRun(request, e) ==
    LET a == canAccessRun(request.runId, e)
    IN  IF a.err # Nil
        THEN Return(Wrap(a.err, "Failed to authorize the request."), "nil", a.calls, runs)
        ELSE
        LET r == rmRunOp(request.runId, e)
            cs == a.calls \o <<Call("rm.UnarchiveRun", request.runId, 0, r)>>
        IN  IF r # Nil
            THEN Return(r, "nil", cs, runs)
            ELSE Return(Nil, "Empty", cs, runs)

\* The resource manager's DeleteRun removes the stored run.
DeleteRun(request, e) ==
    LET a == canAccessRun(request.runId, e)
    IN  IF a.err # Nil
        THEN Return(Wrap(a.err, "Failed to authorize the request."), "nil", a.calls, runs)
        ELSE
        LET r == rmRunOp(request.runId, e)
            cs == a.calls \o <<Call("rm.DeleteRun", request.runId, 0, r)>>
        IN  IF r # Nil
            THEN Return(r, "nil", cs, runs)
            ELSE Return(Nil, "Empty", cs, runs \ {request.runId})

TerminateRun(request, e) ==
    LET a == canAccessRun(request.runId, e)
    IN  IF a.err # Nil
        THEN Return(Wrap(a.err, "Failed to authorize the request."), "nil", a.calls, runs)
        ELSE
        LET r == rmRunOp(request.runId, e)
            cs == a.calls \o <<Call("rm.TerminateRun", request.runId, 0, r)>>
        IN  IF r # Nil
            THEN Return(r, "nil", cs, runs)
            ELSE Return(Nil, "Empty", cs, runs)

RetryRun(request, e) ==
    LET a == canAccessRun(request.runId, e)
    IN  IF a.err # Nil
        THEN Return(Wrap(a.err, "Failed to authorize the request."), "nil", a.calls, runs)
        ELSE
        LET r == rmRunOp(request.runId, e)
            cs == a.calls \o <<Call("rm.RetryRun", request.runId, 0, r)>>
        IN  IF r # Nil
            THEN Return(r, "nil", cs, runs)
            ELSE Return(Nil, "Empty", cs, runs)

----------------------------------------------------------------------------
\* ReadArtifact: no authorization at this layer.

ReadArtifact(request, e) ==
    LET r == rmRunOp(request.runId, e)
        cs == <<Call("rm.ReadArtifact", request.runId, 0, r)>>
    IN  IF r # Nil
        THEN Return([code |-> r.code,
                     msgs |-> <<"failed to read artifact", request.runId,
                                request.nodeId, request.artifactName>> \o r.msgs],
                    "nil", cs, runs)
        ELSE Return(Nil, "ReadArtifactResponse", cs, runs)

----------------------------------------------------------------------------
\* CreateRun.  request.name is run.Name, request.experiment the experiment
\* the run's resource references name ("" when they name none).

ValidatePipelineSpec(e) == IF e.specOk THEN Nil ELSE InvalidSpec

CheckPipelineVersionReference(e) == IF e.versionOk THEN Nil ELSE InvalidVersion

CanAccessExperimentInResourceReferences(request, e) ==
    IF multiUser = FALSE THEN Nil
    ELSE IF Len(request.experiment) = 0
    THEN NewInvalidInputError("Missing experiment resource reference.")
    ELSE CanAccessExperiment(request.experiment, e)

\* The resource manager stores the new run under a fresh id; a run created
\* when every id of RunIds is stored gets an id the model does not follow.
rmCreateRun(e) ==
    IF e.fault
    THEN [err |-> EngineFailure, runs |-> runs]
    ELSE IF runs = RunIds
    THEN [err |-> Nil, runs |-> runs]
    ELSE [err |-> Nil, runs |-> runs \cup {CHOOSE id \in RunIds : id \notin runs}]

\* As validateCreateRunRequest, without the fallback to the pipeline version.
validateCreateRunRequestSpecOnly(request, e) ==
    IF request.name = ""
    THEN [err |-> NewInvalidInputError("The run name is empty. Please specify a valid name."),
          calls |-> <<>>]
    ELSE
    LET v == ValidatePipelineSpec(e)
        c1 == <<Call("ValidatePipelineSpec", request.name, 0, v)>>
    IN  IF v # Nil
        THEN [err |-> Wrap(v, "Neither pipeline spec nor pipeline version is valid. "),
              calls |-> c1]
        ELSE [err |-> Nil, calls |-> c1]

\* As validateCreateRunRequest, running both checks before it looks at either.
validateCreateRunRequestEager(request, e) ==
    IF request.name = ""
    THEN [err |-> NewInvalidInputError("The run name is empty. Please specify a valid name."),
          calls |-> <<>>]
    ELSE
    LET v == ValidatePipelineSpec(e)
        errResourceReference == CheckPipelineVersionReference(e)
        cs == <<Call("ValidatePipelineSpec", request.name, 0, v),
                Call("CheckPipelineVersionReference", request.name, 0,
                     errResourceReference)>>
    IN  IF v # Nil /\ errResourceReference # Nil
        THEN [err |-> [code |-> v.code,
                       msgs |-> <<"Neither pipeline spec nor pipeline version is valid. ">>
                                    \o ErrorText(errResourceReference) \o v.msgs],
              calls |-> cs]
        ELSE [err |-> Nil, calls |-> cs]

validateCreateRunRequest(request, e) ==
    IF request.name = ""
    THEN [err |-> NewInvalidInputError("The run name is empty. Please specify a valid name."),
          calls |-> <<>>]
    ELSE
    LET v == ValidatePipelineSpec(e)
        c1 == <<Call("ValidatePipelineSpec", request.name, 0, v)>>
    IN  IF v # Nil
        THEN
            LET errResourceReference == CheckPipelineVersionReference(e)
                c2 == c1 \o <<Call("CheckPipelineVersionReference", request.name, 0,
                                   errResourceReference)>>
            IN  IF errResourceReference # Nil
                THEN [err |-> [code |-> v.code,
                               msgs |-> <<"Neither pipeline spec nor pipeline version is valid. ">>
                                            \o ErrorText(errResourceReference) \o v.msgs],
                      calls |-> c2]
                ELSE [err |-> Nil, calls |-> c2]
        ELSE [err |-> Nil, calls |-> c1]

\* As CreateRun, authorizing before it validates.
CreateRunAuthorizingFirst(request, e) ==
    LET a == CanAccessExperimentInResourceReferences(request, e)
        c1 == <<Call("CanAccessExperimentInResourceReferences", request.experiment, 0, a)>>
    IN  IF a # Nil
        THEN Return(Wrap(a, "Failed to authorize the request."), "nil", c1, runs)
        ELSE
        LET v == validateCreateRunRequest(request, e)
            c2 == c1 \o v.calls
        IN  IF v.err # Nil
            THEN Return(Wrap(v.err, "Validate create run request failed."), "nil", c2, runs)
            ELSE
            LET r == rmCreateRun(e)
                c3 == c2 \o <<Call("rm.CreateRun", request.name, 0, r.err)>>
            IN  IF r.err # Nil
                THEN Return(Wrap(r.err, "Failed to create a new run."), "nil", c3, runs)
                ELSE Return(Nil, "RunDetail", c3, r.runs)

CreateRun(request, e) ==
    LET v == validateCreateRunRequest(request, e)
    IN  IF v.err # Nil
        THEN Return(Wrap(v.err, "Validate create run request failed."), "nil", v.calls, runs)
        ELSE
        LET a == CanAccessExperimentInResourceReferences(request, e)
            c2 == v.calls \o <<Call("CanAccessExperimentInResourceReferences",
                                    request.experiment, 0, a)>>
        IN  IF a # Nil
            THEN Return(Wrap(a, "Failed to authorize the request."), "nil", c2, runs)
            ELSE
            LET r == rmCreateRun(e)
                c3 == c2 \o <<Call("rm.CreateRun", request.name, 0, r.err)>>
            IN  IF r.err # Nil
                THEN Return(Wrap(r.err, "Failed to create a new run."), "nil", c3, runs)
                ELSE Return(Nil, "RunDetail", c3, r.runs)

----------------------------------------------------------------------------
\* ReportRunMetrics.  request.metrics is request.GetMetrics().

Metrics ==
    {[name |-> "accuracy", nodeId |-> "node-1", value |-> "0.9"],
     [name |-> "loss",     nodeId |-> "node-2", value |-> "0.1"],
     [name |-> "",         nodeId |-> "node-1", value |-> "0.9"],
     [name |-> "accuracy", nodeId |-> "",       value |-> "0.9"],
     [name |-> "accuracy", nodeId |-> "node-1", value |-> "NaN"]}

MetricLists == UNION {[1..n -> Metrics] : n \in 0..MaxMetrics}

ValidateRunMetric(metric) ==
    IF metric.name = "" \/ metric.nodeId = "" \/ metric.value = "NaN"
    THEN InvalidMetric
    ELSE Nil

\* Outcomes of resourceManager.ReportMetric.
ReportOutcomes == {Nil, EngineFailure}

NewReportRunMetricResult(name, nodeId, e) ==
    [name |-> name, nodeId |-> nodeId,
     status |-> IF e = Nil THEN "Ok" ELSE "Error",
     reason |-> e.code]

\* As ReportRunMetricsEnter, going on into the loop when GetRun failed.
ReportRunMetricsEnterIgnoringGetRun(request, e) ==
    LET r == rmRunOp(request.runId, e)
        cs == <<Call("rm.GetRun", request.runId, 0, r)>>
    IN  [pc |-> "loop", out |-> Return(Nil, "nil", cs, runs)]

\* Lines 147-153: the run must exist; then the empty response.
ReportRunMetricsEnter(request, e) ==
    LET r == rmRunOp(request.runId, e)
        cs == <<Call("rm.GetRun", request.runId, 0, r)>>
    IN  IF r # Nil
        THEN [pc |-> "done", out |-> Return(r, "nil", cs, runs)]
        ELSE [pc |-> "loop", out |-> Return(Nil, "nil", cs, runs)]

\* As ReportRunMetricsLoop, appending no result for an invalid metric.
ReportRunMetricsLoopDroppingInvalid(request, i, reported) ==
    LET metric == request.metrics[i]
        v == ValidateRunMetric(metric)
        c1 == <<Call("ValidateRunMetric", metric.name, i, v)>>
    IN  IF v # Nil
        THEN [calls |-> calls \o c1, results |-> results]
        ELSE [calls |-> calls \o c1 \o <<Call("rm.ReportMetric", metric.name, i, reported)>>,
              results |-> Append(results,
                                 NewReportRunMetricResult(metric.name, metric.nodeId,
                                                          reported))]

\* As ReportRunMetricsLoop, with err declared outside the loop: once an item
\* has failed, the later items are recorded with that failure.
ReportRunMetricsLoopKeepingErr(request, i, reported) ==
    LET metric == request.metrics[i]
        failed == i > 1 /\ Len(results) >= i - 1 /\ results[i - 1].status = "Error"
        v == IF failed THEN EngineFailure ELSE ValidateRunMetric(metric)
        c1 == <<Call("ValidateRunMetric", metric.name, i, v)>>
        e2 == IF v = Nil THEN reported ELSE v
        c2 == IF v = Nil
              THEN c1 \o <<Call("rm.ReportMetric", metric.name, i, reported)>>
              ELSE c1
    IN  [calls |-> calls \o c2,
         results |-> Append(results,
                            NewReportRunMetricResult(metric.name, metric.nodeId, e2))]

\* As ReportRunMetricsLoop, calling ReportMetric a second time when it failed.
ReportRunMetricsLoopRetrying(request, i, reported) ==
    LET metric == request.metrics[i]
        v == ValidateRunMetric(metric)
        c1 == <<Call("ValidateRunMetric", metric.name, i, v)>>
        e2 == IF v = Nil THEN reported ELSE v
        once == <<Call("rm.ReportMetric", metric.name, i, reported)>>
        c2 == IF v # Nil THEN c1
              ELSE IF reported # Nil THEN c1 \o once \o once
              ELSE c1 \o once
    IN  [calls |-> calls \o c2,
         results |-> Append(results,
                            NewReportRunMetricResult(metric.name, metric.nodeId, e2))]

\* Lines 154-162: one iteration, for the i-th metric; reported is what
\* resourceManager.ReportMetric answers if it is called.
ReportRunMetricsLoop(request, i, reported) ==
    LET metric == request.metrics[i]
        v == ValidateRunMetric(metric)
        c1 == <<Call("ValidateRunMetric", metric.name, i, v)>>
        e2 == IF v = Nil THEN reported ELSE v
        c2 == IF v = Nil
              THEN c1 \o <<Call("rm.ReportMetric", metric.name, i, reported)>>
              ELSE c1
    IN  [calls |-> calls \o c2,
         results |-> Append(results,
                            NewReportRunMetricResult(metric.name, metric.nodeId, e2))]

----------------------------------------------------------------------------
TypeOK ==
    /\ multiUser \in BOOLEAN
    /\ runs \subseteq RunIds
    /\ pc \in {"idle", "loop", "done"}
    /\ idx \in 0..MaxMetrics
    /\ Len(results) <= MaxMetrics

Init ==
    /\ multiUser \in BOOLEAN
    /\ runs = RunIds
    /\ op = "none"
    /\ req = [runId |-> ""]
    /\ env = DefaultEnv
    /\ pc = "idle"
    /\ idx = 0
    /\ calls = <<>>
    /\ err = Nil
    /\ resp = "nil"
    /\ results = <<>>

\* A handler that runs in one step has returned out.
Serve(name, request, e, out) ==
    /\ op' = name
    /\ req' = request
    /\ env' = e
    /\ pc' = "done"
    /\ idx' = 0
    /\ calls' = out.calls
    /\ err' = out.err
    /\ resp' = out.resp
    /\ runs' = out.runs
    /\ results' = <<>>
    /\ UNCHANGED multiUser

RunRequests == {[runId |-> id] : id \in RunIds}

RunEnvs ==
    {[DefaultEnv EXCEPT !.lookup = l, !.allowed = a, !.fault = f] :
        l \in Lookups, a \in SUBSET Namespaces, f \in BOOLEAN}

ListRequests == {[key |-> k] : k \in Keys}

ListEnvs ==
    {[DefaultEnv EXCEPT !.allowed = a, !.expAllowed = x, !.fault = f,
                        !.optsOk = o, !.filterOk = k] :
        a \in SUBSET Namespaces, x \in SUBSET ExperimentIds,
        f \in BOOLEAN, o \in BOOLEAN, k \in BOOLEAN}

CreateRequests ==
    {[name |-> n, experiment |-> x] :
        n \in {"", "run"}, x \in {""} \cup ExperimentIds}

CreateEnvs ==
    {[DefaultEnv EXCEPT !.expAllowed = x, !.fault = f, !.specOk = s, !.versionOk = v] :
        x \in SUBSET ExperimentIds, f \in BOOLEAN, s \in BOOLEAN, v \in BOOLEAN}

ArtifactRequests ==
    {[runId |-> id, nodeId |-> "node-1", artifactName |-> "model"] : id \in RunIds}

FaultEnvs == {[DefaultEnv EXCEPT !.fault = f] : f \in BOOLEAN}

ReportRequests == {[runId |-> id, metrics |-> ms] : id \in RunIds, ms \in MetricLists}

CallCreateRun ==
    /\ pc = "idle"
    /\ \E r \in CreateRequests, e \in CreateEnvs :
        Serve("CreateRun", r, e, CreateRun(r, e))

CallGetRun ==
    /\ pc = "idle"
    /\ \E r \in RunRequests, e \in RunEnvs :
        Serve("GetRun", r, e, GetRun(r, e))

CallListRuns ==
    /\ pc = "idle"
    /\ \E r \in ListRequests, e \in ListEnvs :
        Serve("ListRuns", r, e, ListRuns(r, e))

CallArchiveRun ==
    /\ pc = "idle"
    /\ \E r \in RunRequests, e \in RunEnvs :
        Serve("ArchiveRun", r, e, ArchiveRun(r, e))

CallUnarchiveRun ==
    /\ pc = "idle"
    /\ \E r \in RunRequests, e \in RunEnvs :
        Serve("UnarchiveRun", r, e, UnarchiveRun(r, e))

CallDeleteRun ==
    /\ pc = "idle"
    /\ \E r \in RunRequests, e \in RunEnvs :
        Serve("DeleteRun", r, e, DeleteRun(r, e))

CallTerminateRun ==
    /\ pc = "idle"
    /\ \E r \in RunRequests, e \in RunEnvs :
        Serve("TerminateRun", r, e, TerminateRun(r, e))

CallRetryRun ==
    /\ pc = "idle"
    /\ \E r \in RunRequests, e \in RunEnvs :
        Serve("RetryRun", r, e, RetryRun(r, e))

CallReadArtifact ==
    /\ pc = "idle"
    /\ \E r \in ArtifactRequests, e \in FaultEnvs :
        Serve("ReadArtifact", r, e, ReadArtifact(r, e))

\* ReportRunMetrics up to its for loop.
CallReportRunMetrics ==
    /\ pc = "idle"
    /\ \E r \in ReportRequests, e \in FaultEnvs :
        LET b == ReportRunMetricsEnter(r, e)
        IN  /\ op' = "ReportRunMetrics"
            /\ req' = r
            /\ env' = e
            /\ pc' = b.pc
            /\ idx' = 0
            /\ calls' = b.out.calls
            /\ err' = b.out.err
            /\ resp' = b.out.resp
            /\ runs' = b.out.runs
            /\ results' = <<>>
            /\ UNCHANGED multiUser

\* One iteration of the for loop.
ReportRunMetricsNext ==
    /\ pc = "loop"
    /\ idx < Len(req.metrics)
    /\ \E reported \in ReportOutcomes :
        LET b == ReportRunMetricsLoop(req, idx + 1, reported)
        IN  /\ idx' = idx + 1
            /\ calls' = b.calls
            /\ results' = b.results
    /\ UNCHANGED <<multiUser, runs, op, req, env, pc, err, resp>>

\* Line 163: return response, nil.
ReportRunMetricsReturn ==
    /\ pc = "loop"
    /\ idx = Len(req.metrics)
    /\ pc' = "done"
    /\ err' = Nil
    /\ resp' = "ReportRunMetricsResponse"
    /\ UNCHANGED <<multiUser, runs, op, req, env, idx, calls, results>>

\* The response has gone to the caller; the next request can come.
Respond ==
    /\ pc = "done"
    /\ op' = "none"
    /\ req' = [runId |-> ""]
    /\ env' = DefaultEnv
    /\ pc' = "idle"
    /\ idx' = 0
    /\ calls' = <<>>
    /\ err' = Nil
    /\ resp' = "nil"
    /\ results' = <<>>
    /\ UNCHANGED <<multiUser, runs>>

Next ==
    \/ CallCreateRun
    \/ CallGetRun
    \/ CallListRuns
    \/ CallArchiveRun
    \/ CallUnarchiveRun
    \/ CallDeleteRun
    \/ CallTerminateRun
    \/ CallRetryRun
    \/ CallReadArtifact
    \/ CallReportRunMetrics
    \/ ReportRunMetricsNext
    \/ ReportRunMetricsReturn
    \/ Respond

Spec == Init /\ [][Next]_vars
----------------------------------------------------------------------------
\* Properties of ReportRunMetrics.

Range(seq) == {seq[i] : i \in 1..Len(seq)}

\* The calls of the current request to the callee fn.
CallsTo(fn) == {i \in 1..Len(calls) : calls[i].fn = fn}

Reporting == op = "ReportRunMetrics" /\ pc \in {"loop", "done"}

\* The initial GetRun of the current ReportRunMetrics call succeeded.
RunFound == calls[1].fn = "rm.GetRun" /\ calls[1].ok

\* C1: a ReportRunMetrics call whose initial GetRun succeeded returns
\* exactly one result per metric of the request, the i-th result carrying the
\* name and the node id of the i-th metric; inside the loop the results are
\* those of the metrics processed so far.
C1_ResultsMatchMetrics ==
    (Reporting /\ RunFound) =>
        /\ Len(results) = idx
        /\ pc = "done" => Len(results) = Len(req.metrics)
        /\ \A i \in 1..Len(results) :
            /\ i <= Len(req.metrics)
            /\ results[i].name = req.metrics[i].name
            /\ results[i].nodeId = req.metrics[i].nodeId

C1_Witness ==
    /\ op = "ReportRunMetrics"
    /\ pc = "done"
    /\ RunFound
    /\ Len(req.metrics) >= 2
    /\ Len(results) = Len(req.metrics)
    /\ results[1].status = "Error"
    /\ results[2].status = "Ok"
    /\ results[1].name # results[2].name

\* C2: the outcome recorded for the i-th metric is decided by that metric
\* alone: an invalid metric is recorded as an error and is not forwarded; a
\* valid metric is validated and forwarded once, and is recorded as Ok exactly
\* when its own ReportMetric succeeded, whatever happened to earlier metrics.
C2_ItemsIndependent ==
    (Reporting /\ RunFound) =>
        \A i \in 1..Len(results) :
            LET metric == req.metrics[i]
                validated == {k \in CallsTo("ValidateRunMetric") : calls[k].i = i}
                reported == {k \in CallsTo("rm.ReportMetric") : calls[k].i = i}
            IN  /\ Cardinality(validated) = 1
                /\ IF ValidateRunMetric(metric) # Nil
                   THEN /\ reported = {}
                        /\ results[i].status = "Error"
                        /\ results[i].reason = "InvalidInput"
                   ELSE /\ Cardinality(reported) = 1
                        /\ \A k \in reported :
                            results[i].status = IF calls[k].ok THEN "Ok" ELSE "Error"

C2_Witness ==
    /\ op = "ReportRunMetrics"
    /\ pc = "done"
    /\ Len(req.metrics) = 3
    /\ ValidateRunMetric(req.metrics[1]) = Nil
    /\ ValidateRunMetric(req.metrics[2]) # Nil
    /\ ValidateRunMetric(req.metrics[3]) = Nil
    /\ Len(results) = 3
    /\ results[1].status = "Ok"
    /\ results[2].status = "Error"
    /\ results[3].status = "Ok"

\* C3: a returned ReportRunMetrics call has an error exactly when its initial
\* GetRun failed; the error is then the resource manager's own, there is no
\* response and no metric was validated or forwarded.  When GetRun succeeded
\* the call returns the response with a nil error.
C3_ErrorIffGetRunFails ==
    (op = "ReportRunMetrics" /\ pc = "done") =>
        /\ calls[1].fn = "rm.GetRun"
        /\ err # Nil <=> ~calls[1].ok
        /\ err # Nil =>
            /\ err = rmRunOp(req.runId, env)
            /\ resp = "nil"
            /\ results = <<>>
            /\ Len(calls) = 1
        /\ err = Nil => resp = "ReportRunMetricsResponse"

C3_Witness ==
    /\ op = "ReportRunMetrics"
    /\ pc = "done"
    /\ err = NotFoundError
    /\ Len(req.metrics) > 0
    /\ results = <<>>

----------------------------------------------------------------------------
\* Properties of the authorization of single-run operations and of ListRuns.

SingleRunOps ==
    {"GetRun", "ArchiveRun", "UnarchiveRun", "DeleteRun", "TerminateRun", "RetryRun"}

\* The resource manager operation each handler delegates to.
EngineOp ==
    [CreateRun |-> "rm.CreateRun", GetRun |-> "rm.GetRun", ListRuns |-> "rm.ListRuns",
     ArchiveRun |-> "rm.ArchiveRun", UnarchiveRun |-> "rm.UnarchiveRun",
     DeleteRun |-> "rm.DeleteRun", TerminateRun |-> "rm.TerminateRun",
     RetryRun |-> "rm.RetryRun", ReadArtifact |-> "rm.ReadArtifact",
     ReportRunMetrics |-> "rm.ReportMetric"]

EngineOps ==
    {"rm.CreateRun", "rm.GetRun", "rm.ListRuns", "rm.ArchiveRun", "rm.UnarchiveRun",
     "rm.DeleteRun", "rm.TerminateRun", "rm.RetryRun", "rm.ReadArtifact",
     "rm.ReportMetric"}

\* The calls that decide whether the caller may act.
AccessChecks ==
    {"isAuthorized", "CanAccessExperiment", "CanAccessExperimentInResourceReferences"}

Served(name) == op = name /\ pc = "done"

\* C4: in multi-user mode a single-run handler calls its resource manager
\* operation only after GetNamespaceFromRunID returned a non-empty namespace
\* without error and isAuthorized allowed that namespace; when the lookup
\* fails, the namespace is empty or the authorizer denies, the handler
\* returns an error and the operation is not called.
C4_EngineOnlyAfterAuthorization ==
    (multiUser /\ op \in SingleRunOps /\ pc = "done") =>
        /\ CallsTo(EngineOp[op]) # {} =>
            /\ Len(calls) = 3
            /\ calls[1].fn = "GetNamespaceFromRunID"
            /\ calls[1].arg = req.runId
            /\ calls[1].ok
            /\ env.lookup.err = Nil
            /\ calls[2].fn = "isAuthorized"
            /\ calls[2].arg = env.lookup.ns
            /\ calls[2].arg # ""
            /\ calls[2].arg \in env.allowed
            /\ calls[2].ok
            /\ calls[3].fn = EngineOp[op]
        /\ (env.lookup.err # Nil \/ env.lookup.ns = "" \/ env.lookup.ns \notin env.allowed) =>
            /\ err # Nil
            /\ \A i \in 1..Len(calls) : calls[i].fn \notin EngineOps

C4_Witness ==
    /\ multiUser
    /\ Served("DeleteRun")
    /\ env.lookup.err = Nil
    /\ env.lookup.ns = "ns2"
    /\ env.allowed = {"ns1"}
    /\ err # Nil
    /\ req.runId \in runs
    /\ CallsTo("rm.DeleteRun") = {}

\* C5: in multi-user mode every handler makes a successful access check
\* before any resource manager operation it delegates to.
C5_EveryOperationAuthorizes ==
    (multiUser /\ pc \in {"loop", "done"}) =>
        \A i \in 1..Len(calls) :
            calls[i].fn \in EngineOps =>
                \E j \in 1..(i - 1) : calls[j].fn \in AccessChecks /\ calls[j].ok

\* Both validations of ListRuns passed: the filter context exists.
FilterContextBuilt ==
    /\ Len(calls) >= 2
    /\ calls[2].fn = "ValidateFilter"
    /\ calls[2].ok

\* C6: in multi-user mode, a ListRuns whose filter context holds no reference
\* key, or one of a type other than Namespace, Experiment and ExperimentUUID,
\* fails with an InvalidInput error, and neither an access check nor the
\* resource manager's ListRuns is called.
C6_ListRunsNeedsKnownReference ==
    (multiUser /\ Served("ListRuns") /\ FilterContextBuilt
        /\ req.key.type \notin {"Namespace", "Experiment", "ExperimentUUID"}) =>
        /\ err.code = "InvalidInput"
        /\ \A i \in 1..Len(calls) : calls[i].fn \notin AccessChecks \cup EngineOps

C6_Witness ==
    /\ multiUser
    /\ Served("ListRuns")
    /\ FilterContextBuilt
    /\ req.key.type = "Unknown"
    /\ req.key.id \in env.allowed
    /\ ~env.fault
    /\ err.code = "InvalidInput"

\* C7: in multi-user mode ListRuns calls the resource manager's ListRuns only
\* for a Namespace reference with a non-empty id that isAuthorized allowed, or
\* for an Experiment/ExperimentUUID reference with a non-empty id that
\* CanAccessExperiment allowed.  A reference of these types with an empty id
\* fails with InvalidInput and no access check is called; a denied check
\* fails the call and the resource manager is not called.
C7_ListRunsNeverSilentlyAllows ==
    (multiUser /\ Served("ListRuns")) =>
        LET key == req.key
            queried == CallsTo("rm.ListRuns") # {}
            checked(fn) ==
                \E j \in 1..Len(calls) :
                    calls[j].fn = fn /\ calls[j].arg = key.id /\ calls[j].ok
        IN  /\ queried =>
                \/ /\ key.type = "Namespace"
                   /\ key.id # ""
                   /\ key.id \in env.allowed
                   /\ checked("isAuthorized")
                \/ /\ key.type \in {"Experiment", "ExperimentUUID"}
                   /\ key.id # ""
                   /\ key.id \in env.expAllowed
                   /\ checked("CanAccessExperiment")
            /\ (key.type \in {"Namespace", "Experiment", "ExperimentUUID"} /\ key.id = "") =>
                /\ err.code = "InvalidInput"
                /\ \A i \in 1..Len(calls) : calls[i].fn \notin AccessChecks \cup EngineOps
            /\ \A i \in 1..Len(calls) :
                (calls[i].fn \in AccessChecks /\ ~calls[i].ok) => (err # Nil /\ ~queried)

C7_Witness ==
    /\ multiUser
    /\ Served("ListRuns")
    /\ req.key = [type |-> "Namespace", id |-> "ns1"]
    /\ env.allowed = {"ns2"}
    /\ ~env.fault
    /\ CallsTo("isAuthorized") # {}
    /\ CallsTo("rm.ListRuns") = {}
    /\ err.code = "PermissionDenied"

\* The other name of the experiment reference type.
Alias(type) == IF type = "Experiment" THEN "ExperimentUUID" ELSE "Experiment"

\* C8: in multi-user mode a ListRuns with an Experiment reference and the
\* same request with an ExperimentUUID reference of the same id, against the
\* same collaborators, make the same calls with the same arguments and return
\* the same error and response.
C8_ExperimentUUIDIsExperiment ==
    (multiUser /\ Served("ListRuns")
        /\ req.key.type \in {"Experiment", "ExperimentUUID"}) =>
        LET other == ListRuns([key |-> [type |-> Alias(req.key.type), id |-> req.key.id]], env)
        IN  /\ other.calls = calls
            /\ other.err = err
            /\ other.resp = resp

C8_Witness ==
    /\ multiUser
    /\ Served("ListRuns")
    /\ req.key = [type |-> "ExperimentUUID", id |-> "e1"]
    /\ env.expAllowed = {"e1"}
    /\ CallsTo("CanAccessExperiment") # {}
    /\ CallsTo("rm.ListRuns") # {}
    /\ err = Nil

----------------------------------------------------------------------------
\* Properties of CreateRun's validation and of single-user mode.

\* CreateRun returned the error of validateCreateRunRequest.
ValidationFailed ==
    /\ err # Nil
    /\ err.msgs[1] = "Validate create run request failed."

\* C9: with a non-empty run name, CreateRun's validation fails exactly when
\* the pipeline spec is invalid and the pipeline version reference check
\* fails too; the error is then an InvalidInput error whose message holds the
\* cause of both failures.
C9_ValidationFailsIffBothInvalid ==
    (Served("CreateRun") /\ req.name # "") =>
        /\ ValidationFailed <=> (~env.specOk /\ ~env.versionOk)
        /\ ValidationFailed =>
            /\ err.code = "InvalidInput"
            /\ Range(InvalidSpec.msgs) \subseteq Range(err.msgs)
            /\ Range(InvalidVersion.msgs) \subseteq Range(err.msgs)

C9_Witness ==
    /\ Served("CreateRun")
    /\ req.name # ""
    /\ ~env.specOk
    /\ ~env.versionOk
    /\ ValidationFailed
    /\ CallsTo("CheckPipelineVersionReference") # {}

\* C10 as claimed: in single-user mode GetRun, ArchiveRun, UnarchiveRun,
\* DeleteRun, TerminateRun, RetryRun and ListRuns make no namespace lookup
\* and no access check, and what they return is what their resource manager
\* operation returned: the operation is called, and the handler's error is
\* the operation's error.
C10_OutcomeIsEngineOutcome ==
    (~multiUser /\ op \in SingleRunOps \cup {"ListRuns"} /\ pc = "done") =>
        /\ \A i \in 1..Len(calls) :
            calls[i].fn \notin AccessChecks \cup {"GetNamespaceFromRunID"}
        /\ CallsTo(EngineOp[op]) # {}
        /\ err \in {Nil, NotFoundError, EngineFailure}
        /\ \A i \in CallsTo(EngineOp[op]) : calls[i].ok <=> err = Nil

\* C10 as amended: in single-user mode these handlers make no namespace
\* lookup and no access check.  A single-run handler calls its resource
\* manager operation and returns that operation's error as it is.  ListRuns
\* calls the resource manager's ListRuns exactly when both of its validations
\* passed; it then succeeds exactly when that call succeeds and returns its
\* error wrapped with "Failed to list runs.".
C10_SingleUserSkipsAuthorization ==
    (~multiUser /\ op \in SingleRunOps \cup {"ListRuns"} /\ pc = "done") =>
        /\ \A i \in 1..Len(calls) :
            calls[i].fn \notin AccessChecks \cup {"GetNamespaceFromRunID"}
        /\ op \in SingleRunOps =>
            /\ Len(calls) = 1
            /\ calls[1].fn = EngineOp[op]
            /\ calls[1].arg = req.runId
            /\ err = IF calls[1].ok THEN Nil
                     ELSE IF env.fault THEN EngineFailure ELSE NotFoundError
        /\ op = "ListRuns" =>
            /\ CallsTo("rm.ListRuns") # {} <=> (env.optsOk /\ env.filterOk)
            /\ \A i \in CallsTo("rm.ListRuns") :
                err = IF calls[i].ok THEN Nil
                      ELSE Wrap(EngineFailure, "Failed to list runs.")

C10_Witness ==
    /\ ~multiUser
    /\ Served("DeleteRun")
    /\ env.lookup.ns = ""
    /\ env.allowed = {}
    /\ err = Nil
    /\ req.runId \notin runs

----------------------------------------------------------------------------
\* Properties of error reporting and of the order of the stages.

\* C11: in multi-user mode, when GetNamespaceFromRunID returns an empty
\* namespace without error, a single-run handler fails with an Internal
\* error (neither PermissionDenied nor NotFound), and neither isAuthorized
\* nor the handler's resource manager operation is called.
C11_EmptyNamespaceIsInternalError ==
    (multiUser /\ op \in SingleRunOps /\ pc = "done"
        /\ env.lookup.err = Nil /\ env.lookup.ns = "") =>
        /\ calls = <<Call("GetNamespaceFromRunID", req.runId, 0, Nil)>>
        /\ err.code = "Internal"
        /\ err.code \notin {"OK", "PermissionDenied", "NotFound"}
        /\ "There is no namespace found" \in Range(err.msgs)

C11_Witness ==
    /\ multiUser
    /\ Served("RetryRun")
    /\ env.lookup = [err |-> Nil, ns |-> ""]
    /\ env.allowed = Namespaces
    /\ ~env.fault
    /\ req.runId \in runs
    /\ err.code = "Internal"

\* The request of the served CreateRun passes validateCreateRunRequest.
CreateRequestValid == req.name # "" /\ (env.specOk \/ env.versionOk)

\* C12: CreateRun calls the resource manager's CreateRun only after the
\* request passed validation and then the access check over its resource
\* references.  When validation fails, no access check is made and the error
\* starts with "Validate create run request failed."; when the access check
\* fails, the resource manager's CreateRun is not called and the error starts
\* with "Failed to authorize the request.".
C12_CreateRunValidatesThenAuthorizes ==
    Served("CreateRun") =>
        LET checks == CallsTo("CanAccessExperimentInResourceReferences")
            created == CallsTo("rm.CreateRun")
        IN  /\ created # {} =>
                /\ CreateRequestValid
                /\ \A k \in created :
                    \E j \in checks : j < k /\ calls[j].ok
            /\ \A j \in checks :
                /\ CreateRequestValid
                /\ \A i \in 1..Len(calls) :
                    calls[i].fn \in {"ValidatePipelineSpec", "CheckPipelineVersionReference"}
                        => i < j
            /\ ~CreateRequestValid =>
                /\ checks = {}
                /\ created = {}
                /\ err # Nil
                /\ err.msgs[1] = "Validate create run request failed."
            /\ \A j \in checks : ~calls[j].ok =>
                /\ created = {}
                /\ err # Nil
                /\ err.msgs[1] = "Failed to authorize the request."

C12_Witness ==
    /\ multiUser
    /\ Served("CreateRun")
    /\ CreateRequestValid
    /\ req.experiment = "e1"
    /\ env.expAllowed = {"e2"}
    /\ ~env.fault
    /\ CallsTo("CanAccessExperimentInResourceReferences") # {}
    /\ CallsTo("rm.CreateRun") = {}
    /\ err.msgs[1] = "Failed to authorize the request."

\* The error e without its outermost message.
Unwrapped(e) == [code |-> e.code, msgs |-> Tail(e.msgs)]

\* C13: when the resource manager operation of a single-run handler fails,
\* the handler returns that error as it is; when canAccessRun fails, the
\* handler returns canAccessRun's error with "Failed to authorize the
\* request." put in front.  The first message of the returned error tells
\* the two apart.
C13_EngineErrorBareAuthorizationErrorWrapped ==
    (op \in SingleRunOps /\ pc = "done") =>
        LET delegated == CallsTo(EngineOp[op])
        IN  /\ \A k \in delegated :
                /\ calls[k].ok <=> err = Nil
                /\ ~calls[k].ok =>
                    /\ err = IF env.fault THEN EngineFailure ELSE NotFoundError
                    /\ err.msgs[1] # "Failed to authorize the request."
            /\ delegated = {} =>
                /\ err # Nil
                /\ err.msgs[1] = "Failed to authorize the request."
                /\ Unwrapped(err) # Nil
                /\ Unwrapped(err) = canAccessRun(req.runId, env).err

C13_Witness ==
    /\ multiUser
    /\ Served("GetRun")
    /\ env.lookup.ns \in env.allowed
    /\ CallsTo("rm.GetRun") # {}
    /\ req.runId \notin runs
    /\ err = NotFoundError

\* The handlers that return the error of one delegated operation.
DelegatingOps == SingleRunOps \cup {"CreateRun", "ListRuns", "ReadArtifact"}

\* The delegated resource manager operation of the served request failed.
EngineFailed == \E k \in CallsTo(EngineOp[op]) : ~calls[k].ok

\* The error a failed resource manager operation gave the served handler.
EngineError ==
    IF op \in {"CreateRun", "ListRuns"} \/ env.fault THEN EngineFailure ELSE NotFoundError

\* C14 as claimed: every handler returns the error of its failed resource
\* manager operation as the operation produced it.
C14_EngineErrorsUnwrapped ==
    (op \in DelegatingOps /\ pc = "done" /\ EngineFailed) => err = EngineError

\* C14 as amended: GetRun, ArchiveRun, UnarchiveRun, DeleteRun, TerminateRun
\* and RetryRun return the error of their failed resource manager operation
\* as it is.  CreateRun, ListRuns and ReadArtifact return it with its class
\* kept and a context message put in front: "Failed to create a new run.",
\* "Failed to list runs.", and "failed to read artifact" with the request.
C14_EngineErrorsKeptOrWrapped ==
    (op \in DelegatingOps /\ pc = "done" /\ EngineFailed) =>
        /\ err.code = EngineError.code
        /\ op \in SingleRunOps => err = EngineError
        /\ op = "CreateRun" => err = Wrap(EngineError, "Failed to create a new run.")
        /\ op = "ListRuns" => err = Wrap(EngineError, "Failed to list runs.")
        /\ op = "ReadArtifact" =>
            err.msgs = <<"failed to read artifact", req.runId, req.nodeId,
                         req.artifactName>> \o EngineError.msgs

C14_Witness ==
    /\ Served("CreateRun")
    /\ env.fault
    /\ EngineFailed
    /\ err.msgs = <<"Failed to create a new run.", "Resource manager failure.">>

\* C15: validateCreateRunRequest checks in a fixed order and stops early.
\* With an empty run name CreateRun fails with an InvalidInput error and
\* neither ValidatePipelineSpec nor CheckPipelineVersionReference is called;
\* CheckPipelineVersionReference is called only after a ValidatePipelineSpec
\* that failed, never after one that succeeded.
C15_ValidatorShortCircuits ==
    Served("CreateRun") =>
        LET specs == CallsTo("ValidatePipelineSpec")
            versions == CallsTo("CheckPipelineVersionReference")
        IN  /\ req.name = "" =>
                /\ calls = <<>>
                /\ err.code = "InvalidInput"
                /\ "The run name is empty. Please specify a valid name." \in Range(err.msgs)
            /\ req.name # "" => specs = {1}
            /\ \A k \in versions : \E j \in specs : j < k /\ ~calls[j].ok
            /\ (\E j \in specs : calls[j].ok) => versions = {}
            /\ Cardinality(versions) <= 1

C15_Witness ==
    /\ Served("CreateRun")
    /\ req.name # ""
    /\ env.specOk
    /\ ~env.versionOk
    /\ CallsTo("ValidatePipelineSpec") # {}
    /\ CallsTo("CheckPipelineVersionReference") = {}
    /\ err = Nil

\* The stage of ListRuns a call belongs to.
ListStage(fn) ==
    CASE fn = "validatedListOptions" -> 1
      [] fn = "ValidateFilter" -> 2
      [] fn \in AccessChecks -> 3
      [] fn = "rm.ListRuns" -> 4
      [] OTHER -> 0

\* C16: ListRuns validates the list options, then the filter, then (in
\* multi-user mode only) authorizes, then queries the resource manager; a
\* stage runs only if every stage before it passed.  With an invalid sort or
\* filter field the only call made is validatedListOptions and the error is
\* the same wrapped validation error in single-user and in multi-user mode.
C16_ListRunsStagesInOrder ==
    Served("ListRuns") =>
        /\ Len(calls) >= 1
        /\ calls[1].fn = "validatedListOptions"
        /\ \A i \in 1..Len(calls) : ListStage(calls[i].fn) > 0
        /\ \A i, j \in 1..Len(calls) :
            i < j => (ListStage(calls[i].fn) < ListStage(calls[j].fn) /\ calls[i].ok)
        /\ ~env.optsOk =>
            /\ calls = <<Call("validatedListOptions", "", 0, InvalidOptions)>>
            /\ err = Wrap(InvalidOptions, "Failed to create list options")
        /\ (env.optsOk /\ ~env.filterOk) =>
            /\ Len(calls) = 2
            /\ calls[2].fn = "ValidateFilter"
            /\ err = Wrap(InvalidFilter, "Validating filter failed.")
        /\ ~multiUser => \A i \in 1..Len(calls) : calls[i].fn \notin AccessChecks
        /\ (multiUser /\ CallsTo("rm.ListRuns") # {}) =>
            \E i \in 1..Len(calls) : calls[i].fn \in AccessChecks

C16_Witness ==
    /\ multiUser
    /\ Served("ListRuns")
    /\ ~env.optsOk
    /\ ~env.filterOk
    /\ req.key = [type |-> "Namespace", id |-> "ns1"]
    /\ env.allowed = {"ns1"}
    /\ Len(calls) = 1
    /\ err.msgs[1] = "Failed to create list options"

\* C17: a ReportRunMetrics call calls GetRun once, as its first call; it
\* calls ReportMetric once for each processed metric that is valid and not at
\* all for one that is invalid, in the order of the metrics, a failed
\* ReportMetric included; a returned call has processed every metric.
C17_ReportMetricOncePerValidItem ==
    Reporting =>
        LET reports == CallsTo("rm.ReportMetric")
        IN  /\ CallsTo("rm.GetRun") = {1}
            /\ ~calls[1].ok => Len(calls) = 1
            /\ \A k \in reports : calls[k].i \in 1..idx
            /\ \A i \in 1..idx :
                Cardinality({k \in reports : calls[k].i = i})
                    = IF ValidateRunMetric(req.metrics[i]) = Nil THEN 1 ELSE 0
            /\ \A k, l \in reports : k < l => calls[k].i < calls[l].i
            /\ (pc = "done" /\ calls[1].ok) => idx = Len(req.metrics)

C17_Witness ==
    /\ op = "ReportRunMetrics"
    /\ pc = "done"
    /\ Len(req.metrics) = 3
    /\ ValidateRunMetric(req.metrics[1]) = Nil
    /\ ValidateRunMetric(req.metrics[2]) # Nil
    /\ ValidateRunMetric(req.metrics[3]) = Nil
    /\ Cardinality(CallsTo("rm.ReportMetric")) = 2
    /\ \E k \in CallsTo("rm.ReportMetric") : calls[k].i = 1 /\ ~calls[k].ok
    /\ \E k \in CallsTo("rm.ReportMetric") : calls[k].i = 3 /\ calls[k].ok

----------------------------------------------------------------------------
\* Concurrent requests.  The server handles each request on its own and
\* holds no lock: while one ReportRunMetrics call is inside its loop, a
\* DeleteRun of another caller can be served to its end.

\* A DeleteRun request served while a ReportRunMetrics call is in its loop;
\* its response goes to its own caller.
ConcurrentDeleteRun ==
    /\ pc = "loop"
    /\ \E r \in RunRequests, e \in RunEnvs :
        LET out == DeleteRun(r, e)
        IN  /\ out.err = Nil
            /\ runs' = out.runs
    /\ UNCHANGED <<multiUser, op, req, env, pc, idx, calls, err, resp, results>>

ConcNext ==
    \/ Next
    \/ ConcurrentDeleteRun

ConcSpec == Init /\ [][ConcNext]_vars

\* C18: every ReportMetric call of a ReportRunMetrics call is made for a
\* run the resource manager stores at the moment of the call, also when a
\* DeleteRun of the same run is served between the initial GetRun and that
\* call.
C18_ReportMetricOnStoredRun ==
    [][(/\ op' = "ReportRunMetrics"
        /\ Len(calls') > Len(calls)
        /\ calls'[Len(calls')].fn = "rm.ReportMetric") => req.runId \in runs]_vars

====
